---- MODULE Spec2Model ----
(***************************************************************************)
(* Model of the MaxMind DB reader extension (extension/maxminddb.c):       *)
(* the Reader object's life cycle (Reader_init, Reader_close, __enter__,   *)
(* __exit__, Reader_dealloc), the lookup bridge (get_record), metadata     *)
(* (Reader_metadata, Metadata_init) and the entry decoder                  *)
(* (from_entry_data_list, from_map, from_array, from_uint128).             *)
(*                                                                         *)
(* Pointers are indices: a Reader's mmdb is a handle number or NULL, the   *)
(* cursor into an entry data list is a position 1..Len(list) or NULL.      *)
(***************************************************************************)
EXTENDS Integers, Sequences, FiniteSets, TLC

\* The C null pointer.
NULL == 0

\* Longest entry data list the decoder specification draws.
MaxLen == 5

\* Number of MMDB_s handles the allocator can hand out in one behaviour.
MaxHandles == 2

-----------------------------------------------------------------------------
(* Host values (PyObject).  Every value is a record of one shape:           *)
(*   k     : the Python type                                                *)
(*   n     : the payload of a scalar (a string or byte string is named by   *)
(*           a number), 0 for containers                                    *)
(*   items : the elements of a list, the <<key, value>> pairs of a dict in  *)
(*           insertion order, <<>> for scalars                              *)

PyObj(k, n, items) == [k |-> k, n |-> n, items |-> items]

Py_None == PyObj("None", 0, <<>>)

\* What PyUnicode_FromStringAndSize builds from memory that is not a string.
GarbageStr == PyObj("str", -1, <<>>)

PyDict_New == PyObj("dict", 0, <<>>)

\* A PyDict_SetItem that adds the pair without looking for the key.
PyDict_SetItem_KeepsBoth(d, key, value) ==
    [d EXCEPT !.items = Append(d.items, <<key, value>>)]

\* PyDict_SetItem: a key already present keeps its place and takes the new
\* value; a new key is added at the end.
PyDict_SetItem(d, key, value) ==
    IF \E i \in 1..Len(d.items) : d.items[i][1] = key
    THEN [d EXCEPT !.items =
            [i \in 1..Len(d.items) |->
                IF d.items[i][1] = key THEN <<key, value>> ELSE d.items[i]]]
    ELSE [d EXCEPT !.items = Append(d.items, <<key, value>>)]

PyList_New == PyObj("list", 0, <<>>)

\* A PyList_SetItem that stores the elements from the far end.
PyList_SetItem_Reversed(l, value) == [l EXCEPT !.items = <<value>> \o l.items]

\* PyList_SetItem(py_obj, i, value) for i = 0, 1, ... in turn.
PyList_SetItem(l, value) == [l EXCEPT !.items = Append(l.items, value)]

-----------------------------------------------------------------------------
(* The engine's entry data list: a sequence of nodes in pre-order; node i's *)
(* next pointer is i + 1, the last node's is NULL.                          *)

ScalarTypes ==
    {"UTF8_STRING", "BYTES", "DOUBLE", "FLOAT", "UINT16", "UINT32",
     "BOOLEAN", "UINT64", "UINT128", "INT32"}

\* "OTHER" stands for every tag the decoder's switch does not list.
NodeTypes == {"MAP", "ARRAY"} \cup ScalarTypes \cup {"OTHER"}

Node(type, data_size, payload) ==
    [type |-> type, data_size |-> data_size, payload |-> payload]

\* (*entry_data_list)->next
NextNode(list, cur) == IF cur < Len(list) THEN cur + 1 ELSE NULL

(* What a read the C standard leaves undefined does in a given build: the   *)
(* process dies, the bytes read are not valid UTF-8, or they make a string. *)
UBOutcomes == {"SIGSEGV", "UnicodeDecodeError", "GarbageKey"}

\* The result of a decoder call: the exception set ("none": a value was
\* returned), the value, where the shared cursor was left, whether a field
\* of a NULL node was read, and whether a node that is not a UTF8_STRING was
\* read through the utf8_string member as a map key.
DecodeResult(exc, val, cur, nullRead, keyCast) ==
    [exc |-> exc, val |-> val, cur |-> cur,
     nullRead |-> nullRead, keyCast |-> keyCast]

-----------------------------------------------------------------------------
(* from_uint128.  A number too wide for the model's integers is held by its *)
(* pieces, most significant first: a uint64_t by its 8 bytes, the engine's  *)
(* native unsigned __int128 by its 8 sixteen-bit limbs, a C string of hex   *)
(* digits and a Python int by their digits 0..15 (the int without leading   *)
(* zeros, <<0>> for zero).  A UINT128 node's payload is                     *)
(* [form |-> "bytes", v |-> the 16 bytes of entry_data.uint128] in a build  *)
(* with MMDB_UINT128_IS_BYTE_ARRAY and [form |-> "native", v |-> the limbs] *)
(* in a build without.                                                      *)

Uint128Size == 16

Uint64Size == 8

\* uint64_t high = 0;
Uint64Zero == [i \in 1..Uint64Size |-> 0]

\* (x << 8) | b on a uint64_t: the top byte leaves the register, the low
\* byte, zero after the shift, takes b.
ShiftLeft8Or(x, b) == Tail(x) \o <<b>>

\* for (i = from; i < to; i++) x = (x << 8) | uint128[i];   (i from 0)
RECURSIVE AccumulateBytes(_, _, _, _)
AccumulateBytes(x, uint128, from, to) ==
    IF from >= to
    THEN x
    ELSE AccumulateBytes(ShiftLeft8Or(x, uint128[from + 1]), uint128,
                         from + 1, to)

\* The bytes of a run of 16-bit limbs.
RECURSIVE LimbBytes(_)
LimbBytes(limbs) ==
    IF limbs = <<>>
    THEN <<>>
    ELSE <<Head(limbs) \div 256, Head(limbs) % 256>> \o LimbBytes(Tail(limbs))

\* uint128 >> 64, stored in a uint64_t
ShiftRight64(uint128) == LimbBytes(SubSeq(uint128, 1, 4))

\* (uint64_t)uint128
TruncateTo64(uint128) == LimbBytes(SubSeq(uint128, 5, 8))

RECURSIVE StripZeros(_)
StripZeros(digits) ==
    IF digits # <<>> /\ Head(digits) = 0
    THEN StripZeros(Tail(digits))
    ELSE digits

\* The digits of a number as written: at least one.
AtLeastOneDigit(digits) == IF digits = <<>> THEN <<0>> ELSE digits

\* The 16 half-bytes of a uint64_t.
Nibbles(x) ==
    [i \in 1..(2 * Uint64Size) |->
        IF i % 2 = 1 THEN x[(i + 1) \div 2] \div 16 ELSE x[i \div 2] % 16]

\* The hex digits of a uint64_t as printf's %X conversion writes them: no
\* leading zeros, one digit for zero.
HexDigits(x) == AtLeastOneDigit(StripZeros(Nibbles(x)))

\* printf's 0 flag with a field width: zeros on the left up to the width.
ZeroPad(digits, width) == [i \in 1..(width - Len(digits)) |-> 0] \o digits

\* A conversion "%" PRIX64 without the 016 flag and width.
Format_PRIX64(x) == HexDigits(x)

\* The conversion "%016" PRIX64.
Format_016PRIX64(x) == ZeroPad(HexDigits(x), 16)

\* snprintf writes at most size - 1 characters.
Truncate(out, size) ==
    SubSeq(out, 1, IF Len(out) < size - 1 THEN Len(out) ELSE size - 1)

\* snprintf(num_str, 33, "%016" PRIX64 "%016" PRIX64, high, low)
snprintf(high, low) ==
    Truncate(Format_016PRIX64(high) \o Format_016PRIX64(low), 33)

\* PyLong_FromString(num_str, NULL, 16)
PyLong_FromString(num_str) ==
    PyObj("int", 0, AtLeastOneDigit(StripZeros(num_str)))

\* malloc(33) is taken to succeed, as every allocation of the decoder is.
from_uint128(entry_data) ==
    IF entry_data.payload.form = "bytes"
    THEN PyLong_FromString(
            snprintf(AccumulateBytes(Uint64Zero, entry_data.payload.v, 0, 8),
                     AccumulateBytes(Uint64Zero, entry_data.payload.v, 8, 16)))
    ELSE PyLong_FromString(
            snprintf(ShiftRight64(entry_data.payload.v),
                     TruncateTo64(entry_data.payload.v)))

\* The Python object a scalar node becomes.
ScalarValue(node) ==
    CASE node.type = "UTF8_STRING" -> PyObj("str", node.payload, <<>>)
      [] node.type = "UINT128"     -> from_uint128(node)
      [] node.type = "BYTES"       -> PyObj("bytearray", node.payload, <<>>)
      [] node.type \in {"DOUBLE", "FLOAT"} -> PyObj("float", node.payload, <<>>)
      [] node.type = "BOOLEAN"     -> PyObj("bool", node.payload, <<>>)
      [] OTHER                     -> PyObj("int", node.payload, <<>>)

\* The key from_map builds from the node after the cursor: it reads the
\* node's utf8_string and data_size without looking at the node or its type.
MapKey(list, cur, ub) ==
    IF cur = NULL
    THEN \* a field of a NULL node is read; a build that survives the first
         \* read gets a NULL key or dies on the second, line 537
         DecodeResult(IF ub = "UnicodeDecodeError" THEN ub ELSE "SIGSEGV",
                      Py_None, NULL, TRUE, FALSE)
    ELSE IF list[cur].type = "UTF8_STRING"
    THEN DecodeResult("none", PyObj("str", list[cur].payload, <<>>),
                      cur, FALSE, FALSE)
    ELSE IF list[cur].type = "BYTES"
    THEN \* bytes and utf8_string are pointers of one union: the bytes are
         \* taken as the text
         DecodeResult("none", PyObj("str", list[cur].payload, <<>>),
                      cur, FALSE, TRUE)
    ELSE \* the union holds no pointer: the read is undefined
         IF ub = "GarbageKey"
         THEN DecodeResult("none", GarbageStr, cur, FALSE, TRUE)
         ELSE DecodeResult(ub, Py_None, cur, FALSE, TRUE)

RECURSIVE from_entry_data_list(_, _, _)
RECURSIVE from_map_loop(_, _, _, _, _, _, _)
RECURSIVE from_array_loop(_, _, _, _, _, _, _)

\* The body of from_map's for loop, from iteration i on.
from_map_loop(list, cur, i, map_size, py_obj, kc, ub) ==
    IF i >= map_size
    THEN DecodeResult("none", py_obj, cur, FALSE, kc)
    ELSE LET key == MapKey(list, NextNode(list, cur), ub)
         IN  IF key.exc # "none"
             THEN [key EXCEPT !.keyCast = kc \/ key.keyCast]
             ELSE LET value ==
                        from_entry_data_list(list, NextNode(list, key.cur), ub)
                      kc2 == kc \/ key.keyCast \/ value.keyCast
                  IN  IF value.exc # "none"
                      THEN [value EXCEPT !.keyCast = kc2]
                      ELSE from_map_loop(list, value.cur, i + 1, map_size,
                                PyDict_SetItem(py_obj, key.val, value.val),
                                kc2, ub)

from_map(list, cur, ub) ==
    from_map_loop(list, cur, 0, list[cur].data_size, PyDict_New, FALSE, ub)

\* The body of from_array's for loop, from iteration i on.
from_array_loop(list, cur, i, size, py_obj, kc, ub) ==
    IF i >= size
    THEN DecodeResult("none", py_obj, cur, FALSE, kc)
    ELSE LET value == from_entry_data_list(list, NextNode(list, cur), ub)
             kc2 == kc \/ value.keyCast
         IN  IF value.exc # "none"
             THEN [value EXCEPT !.keyCast = kc2]
             ELSE from_array_loop(list, value.cur, i + 1, size,
                                  PyList_SetItem(py_obj, value.val), kc2, ub)

from_array(list, cur, ub) ==
    from_array_loop(list, cur, 0, list[cur].data_size, PyList_New, FALSE, ub)

from_entry_data_list(list, cur, ub) ==
    IF cur = NULL
    THEN DecodeResult("InvalidDatabaseError", Py_None, NULL, FALSE, FALSE)
    ELSE CASE list[cur].type = "MAP"   -> from_map(list, cur, ub)
           [] list[cur].type = "ARRAY" -> from_array(list, cur, ub)
           [] list[cur].type \in ScalarTypes ->
                DecodeResult("none", ScalarValue(list[cur]), cur, FALSE, FALSE)
           [] OTHER ->
                DecodeResult("InvalidDatabaseError", Py_None, cur, FALSE, FALSE)

-----------------------------------------------------------------------------
(* The lists the engine can hand to the decoder.  A database file may be    *)
(* corrupt, so a list is any sequence of nodes; nodes the decoder never     *)
(* reaches cannot change what it does, so a list grows by one node only     *)
(* while the decoder runs off its end.                                      *)

Sizes == {0, 1, 2}

Alphabet ==
    {Node("MAP", s, 0) : s \in Sizes} \cup
    {Node("ARRAY", s, 0) : s \in Sizes \ {0}} \cup
    {Node("UTF8_STRING", 1, 1), Node("UTF8_STRING", 1, 2),
     Node("BYTES", 1, 1), Node("OTHER", 0, 0)}

\* The decoder asked for a node after the last one.
RunsOffEnd(list) == from_entry_data_list(list, 1, "GarbageKey").cur = NULL

\* The lists of frontier (all of one length) and their extensions by up to
\* n - 1 further nodes.
RECURSIVE Grow(_, _)
Grow(frontier, n) ==
    IF n = 0
    THEN {}
    ELSE frontier \cup
         Grow({Append(l, x) : l \in {m \in frontier : RunsOffEnd(m)},
                              x \in Alphabet}, n - 1)

NodeLists == Grow({<<x>> : x \in Alphabet}, MaxLen)

-----------------------------------------------------------------------------
(* The Reader object, the allocator and the engine.                         *)

VARIABLES
    mmdb,     \* Reader_obj.mmdb: a handle, or NULL
    closed,   \* Reader_obj.closed: "NULL" (never set), "False" or "True"
    self,     \* the Reader object: "live", "freed" (after Reader_dealloc),
              \* or "killed" (the process died)
    handles,  \* per MMDB_s block: mem, eng, how often it was passed to
              \* MMDB_close and to free, and metadata.ip_version while open
    res,      \* what the last call did and returned
    nodes     \* the entry data list under decode (decoder specification)

vars == <<mmdb, closed, self, handles, res, nodes>>

Handles == 1..MaxHandles

UnusedHandle == [mem |-> "unused", eng |-> "none", closes |-> 0, frees |-> 0,
                 ip_version |-> 0]

\* The outcome of a call.  exc is the exception raised ("none": the call
\* returned normally; "SIGSEGV": it never returned); engine is the handle
\* the call passed to the engine (NULL: the engine was not called); family
\* is the address family looked up, status, netmask and found_entry what
\* MMDB_lookup_sockaddr answered, list_status what MMDB_get_entry_data_list
\* answered ("": not called);
\* listHead is the head of the entry data list the engine handed over
\* (NULL: none) and freed the pointers given to MMDB_free_entry_data_list,
\* in order; alloc says what became of the MMDB_s block Reader_init
\* allocated ("none": it allocated nothing); args are the arguments
\* <<database, mode>> Reader_init was called with.
Result(op) ==
    [op |-> op, args |-> <<>>, exc |-> "none", msg |-> "", record |-> Py_None,
     prefix_len |-> -1, engine |-> NULL, family |-> "", status |-> "",
     netmask |-> 0, found_entry |-> FALSE, list_status |-> "",
     listHead |-> NULL, freed |-> <<>>, cur |-> NULL,
     nullRead |-> FALSE, keyCast |-> FALSE, alloc |-> "none"]

Raise(r, exc, msg) == [r EXCEPT !.exc = exc, !.msg = msg]

ClosedMsg == "Attempt to read from a closed MaxMind DB."

-----------------------------------------------------------------------------
(* Address arguments and ip_converter.                                      *)

\* The arguments tried: a text and a packed address, and one argument for
\* each way ip_converter fails.
Args ==
    {"1.2.3.4", "IPv6Address.packed",
     "not-an-address", "embedded-null", "packed-of-length-5", "no-packed-attr"}

ip_converter(obj) ==
    CASE obj = "1.2.3.4" -> [exc |-> "none", msg |-> "", family |-> "AF_INET"]
      [] obj = "2001:db8::1" ->
            [exc |-> "none", msg |-> "", family |-> "AF_INET6"]
      [] obj = "IPv4Address.packed" ->
            [exc |-> "none", msg |-> "", family |-> "AF_INET"]
      [] obj = "IPv6Address.packed" ->
            [exc |-> "none", msg |-> "", family |-> "AF_INET6"]
      [] obj = "not-an-address" ->
            [exc |-> "ValueError",
             msg |-> "does not appear to be an IPv4 or IPv6 address.",
             family |-> ""]
      [] obj = "embedded-null" ->
            [exc |-> "TypeError",
             msg |-> "argument 1 contains an embedded null character",
             family |-> ""]
      [] obj = "packed-of-length-5" ->
            [exc |-> "ValueError",
             msg |-> "argument 1 returned an unexpected packed length for address",
             family |-> ""]
      [] OTHER ->
            [exc |-> "TypeError",
             msg |-> "argument 1 must be a string or ipaddress object",
             family |-> ""]

\* inet_ntop writes an AF_INET or AF_INET6 address into INET6_ADDRSTRLEN
\* bytes: it cannot fail for the families ip_converter sets.
format_sockaddr(family) == family \in {"AF_INET", "AF_INET6"}

-----------------------------------------------------------------------------
(* The engine's answers to a lookup (libmaxminddb, outside the extension).  *)

\* The raw netmasks tried: in the bit width of the database's tree.
Netmasks(ip_version) ==
    IF ip_version = 4 THEN {0, 24, 32} ELSE {0, 24, 95, 96, 97, 120, 128}

\* An IPv6 address cannot be looked up in an IPv4 tree; any lookup can find
\* the search tree corrupt.
LookupStatuses(ip_version, family) ==
    IF ip_version = 4 /\ family = "AF_INET6"
    THEN {"MMDB_IPV6_LOOKUP_IN_IPV4_DATABASE_ERROR"}
    ELSE {"MMDB_SUCCESS", "MMDB_CORRUPT_SEARCH_TREE_ERROR"}

Answer(status, netmask, found_entry, list_status, list) ==
    [status |-> status, netmask |-> netmask, found_entry |-> found_entry,
     list_status |-> list_status, list |-> list]

NoAnswer == Answer("", 0, FALSE, "", <<>>)

\* MMDB_lookup_sockaddr's result, then MMDB_get_entry_data_list's: a status
\* and the list (<<>>: the NULL list).  A failed MMDB_get_entry_data_list
\* leaves NULL or the part of the list it built.
EngineAnswers(ip_version, family, lists) ==
    {Answer(st, 0, FALSE, "", <<>>) :
        st \in LookupStatuses(ip_version, family) \ {"MMDB_SUCCESS"}}
    \cup
    (IF "MMDB_SUCCESS" \in LookupStatuses(ip_version, family)
     THEN {Answer("MMDB_SUCCESS", nm, FALSE, "", <<>>) :
              nm \in Netmasks(ip_version)}
          \cup
          {Answer("MMDB_SUCCESS", nm, TRUE, "MMDB_SUCCESS", l) :
              nm \in Netmasks(ip_version) \cap {24, 120}, l \in lists}
          \cup
          {Answer("MMDB_SUCCESS", nm, TRUE, "MMDB_INVALID_DATA_ERROR", l) :
              nm \in {24}, l \in {<<>>} \cup {SubSeq(m, 1, 1) : m \in lists}}
     ELSE {})

-----------------------------------------------------------------------------
(* get_record: the lookup bridge.                                           *)

\* Number of bits before the IPv4 subtree of an IPv6 tree.
Ipv4StartBit == 96

\* A PrefixLen that subtracts without the test for a netmask below the start
\* bit.
PrefixLen_NoClamp(netmask, family, ip_version) ==
    IF family = "AF_INET" /\ ip_version = 6
    THEN netmask - Ipv4StartBit
    ELSE netmask

\* Lines 180-185: the prefix length reported for the netmask.
PrefixLen(netmask, family, ip_version) ==
    IF family = "AF_INET" /\ ip_version = 6
    THEN IF netmask >= Ipv4StartBit THEN netmask - Ipv4StartBit ELSE 0
    ELSE netmask

\* A LookupException that does not single out the address family error.
LookupException_AlwaysCorrupt(mmdb_error) == "InvalidDatabaseError"

\* Lines 163-178: the exception for a failed MMDB_lookup_sockaddr.
LookupException(mmdb_error) ==
    IF mmdb_error = "MMDB_IPV6_LOOKUP_IN_IPV4_DATABASE_ERROR"
    THEN "ValueError"
    ELSE "InvalidDatabaseError"

\* The pointer of a list: its head, NULL for the empty list.
HeadOf(list) == IF list = <<>> THEN NULL ELSE 1

\* MMDB_free_entry_data_list(ptr), recorded in the result.
FreeList(r, ptr) == [r EXCEPT !.freed = Append(r.freed, ptr)]

\* A DecodeAndFree that frees the pointer the decoder advanced.
DecodeAndFree_FreesCursor(r, list, ub) ==
    LET d == from_entry_data_list(list, HeadOf(list), ub)
        r1 == [r EXCEPT !.cur = d.cur, !.nullRead = d.nullRead,
                        !.keyCast = d.keyCast, !.listHead = HeadOf(list)]
    IN  IF d.exc = "SIGSEGV"
        THEN Raise(r1, "SIGSEGV", "")
        ELSE IF d.exc # "none"
        THEN Raise(FreeList(r1, d.cur), d.exc, "Error while looking up data.")
        ELSE [FreeList(r1, d.cur) EXCEPT !.record = d.val]

\* Lines 207-216: decode the list and free it.  A decoder that dies frees
\* nothing.
DecodeAndFree(r, list, ub) ==
    LET original_entry_data_list == HeadOf(list)
        d == from_entry_data_list(list, HeadOf(list), ub)
        r1 == [r EXCEPT !.cur = d.cur, !.nullRead = d.nullRead,
                        !.keyCast = d.keyCast, !.listHead = HeadOf(list)]
    IN  IF d.exc = "SIGSEGV"
        THEN Raise(r1, "SIGSEGV", "")
        ELSE IF d.exc # "none"
        THEN Raise(FreeList(r1, original_entry_data_list), d.exc,
                   "Error while looking up data.")
        ELSE [FreeList(r1, original_entry_data_list) EXCEPT !.record = d.val]

\* get_record(self, args, &record) with the engine's answer ans; the result's
\* prefix_len is the int returned (-1 with an exception set).
get_record(op, arg, ans, ub) ==
    LET r == Result(op)
        conv == ip_converter(arg)
    IN  IF mmdb = NULL
        THEN Raise(r, "ValueError", ClosedMsg)
        ELSE IF conv.exc # "none"
        THEN Raise(r, conv.exc, conv.msg)
        ELSE IF conv.family = ""
        THEN Raise(r, "ValueError", "Error parsing argument")
        ELSE
        LET q == [r EXCEPT !.engine = mmdb, !.family = conv.family,
                           !.status = ans.status, !.netmask = ans.netmask,
                           !.found_entry = ans.found_entry,
                           !.list_status =
                              IF ans.status = "MMDB_SUCCESS" /\ ans.found_entry
                              THEN ans.list_status ELSE ""]
            prefix_len ==
                PrefixLen(ans.netmask, conv.family, handles[mmdb].ip_version)
        IN  IF ans.status # "MMDB_SUCCESS"
            THEN IF format_sockaddr(conv.family)
                 THEN Raise(q, LookupException(ans.status), "Error looking up")
                 ELSE Raise(q, "RuntimeError", "unable to format IP address")
            ELSE IF ~ans.found_entry
            THEN [q EXCEPT !.record = Py_None, !.prefix_len = prefix_len]
            ELSE IF ans.list_status # "MMDB_SUCCESS"
            THEN LET q1 == FreeList([q EXCEPT !.listHead = HeadOf(ans.list)],
                                    HeadOf(ans.list))
                 IN  IF format_sockaddr(conv.family)
                     THEN Raise(q1, "InvalidDatabaseError",
                                "Error while looking up data for")
                     ELSE Raise(q1, "RuntimeError",
                                "unable to format IP address")
            ELSE LET d == DecodeAndFree(q, ans.list, ub)
                 IN  IF d.exc # "none" THEN d
                     ELSE [d EXCEPT !.prefix_len = prefix_len]

-----------------------------------------------------------------------------
(* Metadata.                                                                *)

\* The keywords of Metadata_init's kwlist; a metadata key is the string with
\* the keyword's number.
NumMetadataFields == 9

MetadataFields == 1..NumMetadataFields

\* PyObject_Call(&Metadata_Type, args, metadata_dict): Metadata_init with the
\* dict as keyword arguments.  A keyword outside kwlist fails the parse, and
\* the new object, its fields still NULL, goes to Metadata_dealloc, which
\* reads through them; a keyword missing leaves its local uninitialised, and
\* Py_INCREF reads through it.
Metadata_init(r, ub) ==
    LET kwds == r.record.items
        given == {kwds[i][1].n : i \in 1..Len(kwds)}
        field(f) == IF f \in given
                    THEN (CHOOSE i \in 1..Len(kwds) : kwds[i][1].n = f)
                    ELSE 0
    IN  IF ~(given \subseteq MetadataFields)
        THEN IF ub = "SIGSEGV"
             THEN Raise([r EXCEPT !.record = Py_None, !.nullRead = TRUE],
                        "SIGSEGV", "")
             ELSE Raise([r EXCEPT !.record = Py_None, !.nullRead = TRUE],
                        "TypeError", "unexpected keyword argument")
        ELSE IF given # MetadataFields
        THEN IF ub = "SIGSEGV"
             THEN Raise([r EXCEPT !.record = Py_None], "SIGSEGV", "")
             ELSE [r EXCEPT !.record =
                     PyObj("Metadata", 0,
                           [f \in MetadataFields |->
                               IF f \in given THEN kwds[field(f)][2]
                               ELSE GarbageStr])]
        ELSE [r EXCEPT !.record =
                PyObj("Metadata", 0,
                      [f \in MetadataFields |-> kwds[field(f)][2]])]

\* Reader_metadata with the list the engine hands over (<<>>: it failed and
\* left NULL; its status is not looked at).
metadata_record(list, ub) ==
    LET r == Result("metadata")
    IN  IF mmdb = NULL
        THEN Raise(r, "IOError", ClosedMsg)
        ELSE LET d == DecodeAndFree([r EXCEPT !.engine = mmdb], list, ub)
             IN  IF d.exc = "SIGSEGV"
                 THEN d
                 ELSE IF d.exc # "none" \/ d.record.k # "dict"
                 THEN Raise([d EXCEPT !.record = Py_None],
                            "InvalidDatabaseError", "Error decoding metadata.")
                 ELSE Metadata_init(d, ub)

-----------------------------------------------------------------------------
(* The file system and MMDB_open.                                           *)

MODE_AUTO == 0
MODE_MMAP_EXT == 1

Modes == {MODE_AUTO, MODE_MMAP_EXT, 2, 4}

\* The database arguments tried; "" is an argument PyUnicode_FSConverter
\* rejects.
Databases ==
    {"ipv4.mmdb", "ipv6.mmdb", "not-a-database.txt", "unreadable.mmdb",
     "missing.mmdb", ""}

\* access(filename, R_OK): "" when it returns 0, else the OSError raised.
access(filename) ==
    CASE filename = "missing.mmdb"    -> "FileNotFoundError"
      [] filename = "unreadable.mmdb" -> "PermissionError"
      [] OTHER                        -> ""

\* MMDB_open(filename, MMDB_MODE_MMAP, mmdb): the ip_version of the database
\* opened, 0 when the engine refuses the file.
MMDB_open(filename) ==
    CASE filename = "ipv4.mmdb" -> 4
      [] filename = "ipv6.mmdb" -> 6
      [] OTHER                  -> 0

\* malloc(sizeof(MMDB_s)): a block never handed out, NULL when none is left.
malloc ==
    IF \E h \in Handles : handles[h].mem = "unused"
    THEN CHOOSE h \in Handles :
            /\ handles[h].mem = "unused"
            /\ \A g \in Handles : handles[g].mem = "unused" => h <= g
    ELSE NULL

-----------------------------------------------------------------------------
(* The operations of a Reader.  Every operation needs the object ("live").  *)

\* A call that does not return kills the process.
After(r) == IF r.exc = "SIGSEGV" THEN "killed" ELSE self

\* Reader_init(self, args, kwds): tp_init, which Python runs at construction
\* and again on every reader.__init__(...).
Reader_init ==
    /\ self = "live"
    /\ \E database \in Databases, mode \in Modes, malloc_ok \in BOOLEAN :
        LET r == [Result("init") EXCEPT !.args = <<database, mode>>]
            block == IF malloc_ok THEN malloc ELSE NULL
            ip_version == MMDB_open(database)
        IN  IF database = ""
            THEN /\ res' = Raise(r, "TypeError", "database")
                 /\ UNCHANGED <<mmdb, closed, self, handles, nodes>>
            ELSE IF mode # MODE_AUTO /\ mode # MODE_MMAP_EXT
            THEN /\ res' = Raise(r, "ValueError", "Unsupported open mode")
                 /\ UNCHANGED <<mmdb, closed, self, handles, nodes>>
            ELSE IF access(database) # ""
            THEN /\ res' = Raise(r, access(database), database)
                 /\ UNCHANGED <<mmdb, closed, self, handles, nodes>>
            ELSE IF block = NULL
            THEN /\ res' = Raise(r, "MemoryError", "")
                 /\ UNCHANGED <<mmdb, closed, self, handles, nodes>>
            ELSE IF ip_version = 0
            THEN \* free(mmdb): the block goes back to the allocator
                 /\ res' = Raise([r EXCEPT !.alloc = "freed"],
                                 "InvalidDatabaseError",
                                 "Error opening database file")
                 /\ UNCHANGED <<mmdb, closed, self, handles, nodes>>
            ELSE /\ handles' = [handles EXCEPT ![block] =
                        [mem |-> "allocated", eng |-> "open", closes |-> 0,
                         frees |-> 0, ip_version |-> ip_version]]
                 /\ mmdb' = block
                 /\ closed' = "False"
                 /\ res' = [r EXCEPT !.alloc = "attached", !.engine = block]
                 /\ UNCHANGED <<self, nodes>>

\* The outcomes of undefined reads worth telling apart for a list: one when
\* decoding it makes no such read.
OutcomesFor(list) ==
    IF from_entry_data_list(list, HeadOf(list), "GarbageKey")
         = from_entry_data_list(list, HeadOf(list), "SIGSEGV")
    THEN {"SIGSEGV"}
    ELSE UBOutcomes

\* The engine's answers to the lookup get_record makes for arg: none when
\* get_record returns before the lookup.
AnswersFor(arg, lists) ==
    IF mmdb = NULL \/ ip_converter(arg).exc # "none"
    THEN {NoAnswer}
    ELSE EngineAnswers(handles[mmdb].ip_version, ip_converter(arg).family,
                       lists)

\* Reader_get with the entry data lists the engine may hand over.
Reader_get(lists) ==
    /\ self = "live"
    /\ \E arg \in Args :
        \E ans \in AnswersFor(arg, lists) :
            \E ub \in OutcomesFor(ans.list) :
                LET r == get_record("get", arg, ans, ub)
                IN  \* the prefix length is dropped: the record is returned
                    /\ res' = [r EXCEPT !.prefix_len = -1]
                    /\ self' = After(r)
    /\ UNCHANGED <<mmdb, closed, handles, nodes>>

\* Reader_get_with_prefix_len: the tuple (record, prefix_len).
Reader_get_with_prefix_len(lists) ==
    /\ self = "live"
    /\ \E arg \in Args :
        \E ans \in AnswersFor(arg, lists) :
            \E ub \in OutcomesFor(ans.list) :
                LET r == get_record("get_with_prefix_len", arg, ans, ub)
                IN  /\ res' = r
                    /\ self' = After(r)
    /\ UNCHANGED <<mmdb, closed, handles, nodes>>

Reader_metadata(lists) ==
    /\ self = "live"
    /\ \E list \in lists \cup {<<>>}, ub \in UBOutcomes :
            LET r == metadata_record(list, ub)
            IN  /\ res' = r
                /\ self' = After(r)
    /\ UNCHANGED <<mmdb, closed, handles, nodes>>

\* A Reader_close that releases the handle and keeps the pointer to it.
Reader_close_impl_KeepsPointer ==
    /\ handles' =
          IF NULL # mmdb
          THEN [handles EXCEPT ![mmdb] =
                  [mem |-> "freed", eng |-> "closed", closes |-> @.closes + 1,
                   frees |-> @.frees + 1, ip_version |-> 0]]
          ELSE handles
    /\ mmdb' = mmdb
    /\ closed' = "True"

\* The C function Reader_close, which close(), __exit__ and Reader_dealloc
\* all run: MMDB_close and free on the handle, if any.
Reader_close_impl ==
    /\ handles' =
          IF NULL # mmdb
          THEN [handles EXCEPT ![mmdb] =
                  [mem |-> "freed", eng |-> "closed", closes |-> @.closes + 1,
                   frees |-> @.frees + 1, ip_version |-> 0]]
          ELSE handles
    /\ mmdb' = NULL
    /\ closed' = "True"

\* reader.close()
Reader_close ==
    /\ self = "live"
    /\ Reader_close_impl
    /\ res' = [Result("close") EXCEPT !.engine = mmdb]
    /\ UNCHANGED <<self, nodes>>

\* An __enter__ that returns self whatever the state.
Reader__enter__Unchecked ==
    /\ self = "live"
    /\ res' = [Result("__enter__") EXCEPT !.record = PyObj("Reader", 0, <<>>)]
    /\ UNCHANGED <<mmdb, closed, self, handles, nodes>>

\* reader.__enter__(): returns self (record: the reader) unless closed.
Reader__enter__ ==
    /\ self = "live"
    /\ res' = IF closed = "True"
              THEN Raise(Result("__enter__"), "ValueError",
                         "Attempt to reopen a closed MaxMind DB.")
              ELSE [Result("__enter__") EXCEPT !.record =
                        PyObj("Reader", 0, <<>>)]
    /\ UNCHANGED <<mmdb, closed, self, handles, nodes>>

\* reader.__exit__(exc_type, exc_value, traceback): the arguments, which say
\* how the block ended, are not looked at.
Reader__exit__ ==
    /\ self = "live"
    /\ \E exc_type \in {"None", "Exception"} :
        /\ Reader_close_impl
        /\ res' = [Result("__exit__") EXCEPT !.engine = mmdb,
                                            !.msg = exc_type]
    /\ UNCHANGED <<self, nodes>>

\* tp_dealloc: the last reference is gone.
Reader_dealloc ==
    /\ self = "live"
    /\ IF NULL # mmdb
       THEN Reader_close_impl
       ELSE UNCHANGED <<mmdb, closed, handles>>
    /\ self' = "freed"
    /\ res' = [Result("dealloc") EXCEPT !.engine = mmdb]
    /\ UNCHANGED nodes

-----------------------------------------------------------------------------
(* The reader specification: a Reader from PyType_GenericNew on (its memory *)
(* zeroed, tp_init not yet run), under every sequence of calls.             *)

\* Entry data lists the engine hands over in the reader specification.
SampleLists ==
    { <<Node("UINT32", 4, 7)>>,
      <<Node("MAP", 1, 0), Node("UTF8_STRING", 1, 1), Node("UINT32", 4, 7)>>,
      <<Node("MAP", 1, 0), Node("UTF8_STRING", 1, 1), Node("ARRAY", 2, 0),
        Node("UINT32", 4, 7), Node("UTF8_STRING", 1, 2)>>,
      <<Node("MAP", 1, 0), Node("UTF8_STRING", 1, 1)>>,
      <<Node("ARRAY", 1, 0), Node("MAP", 1, 0), Node("UTF8_STRING", 1, 1),
        Node("OTHER", 0, 0)>>,
      <<Node("MAP", 2, 0), Node("UTF8_STRING", 1, 1), Node("UINT32", 4, 7)>>,
      <<Node("MAP", 1, 0), Node("UINT32", 4, 7), Node("UINT32", 4, 7)>>,
      <<Node("MAP", NumMetadataFields, 0)>> \o
        [i \in 1..(2 * NumMetadataFields) |->
            IF i % 2 = 1 THEN Node("UTF8_STRING", 1, (i + 1) \div 2)
            ELSE Node("UINT32", 4, 7)] }

Init ==
    /\ mmdb = NULL
    /\ closed = "NULL"
    /\ self = "live"
    /\ handles = [h \in Handles |-> UnusedHandle]
    /\ res = Result("new")
    /\ nodes = <<>>

Next ==
    \/ Reader_init
    \/ Reader_get(SampleLists)
    \/ Reader_get_with_prefix_len(SampleLists)
    \/ Reader_metadata(SampleLists)
    \/ Reader_close
    \/ Reader__enter__
    \/ Reader__exit__
    \/ Reader_dealloc

Spec == Init /\ [][Next]_vars

-----------------------------------------------------------------------------
(* The decoder specification: a Reader just constructed on an IPv6          *)
(* database whose entry for 1.2.3.4 is the list nodes, any list of          *)
(* NodeLists; the only calls are lookups of that address.                   *)

InitDecode ==
    /\ nodes \in NodeLists
    /\ mmdb = 1
    /\ closed = "False"
    /\ self = "live"
    /\ handles = [h \in Handles |->
                    IF h = 1
                    THEN [mem |-> "allocated", eng |-> "open", closes |-> 0,
                          frees |-> 0, ip_version |-> 6]
                    ELSE UnusedHandle]
    /\ res = [Result("init") EXCEPT !.alloc = "attached", !.engine = 1]

\* reader.get_with_prefix_len("1.2.3.4"), the engine finding the entry.
LookupEntry ==
    /\ self = "live"
    /\ \E ub \in OutcomesFor(nodes) :
        LET r == get_record("get_with_prefix_len", "1.2.3.4",
                   Answer("MMDB_SUCCESS", 120, TRUE, "MMDB_SUCCESS", nodes), ub)
        IN  /\ res' = r
            /\ self' = After(r)
    /\ UNCHANGED <<mmdb, closed, handles, nodes>>

NextDecode == LookupEntry

SpecDecode == InitDecode /\ [][NextDecode]_vars

-----------------------------------------------------------------------------
(* The 128-bit specification: a Reader just constructed on an IPv6 database *)
(* whose entry for 1.2.3.4 is one UINT128 node, in the form of either       *)
(* build; the only calls are lookups of that address.                       *)

\* Byte values tried: zero, one, a value below 16 (one hex digit), the top
\* bit alone, all bits.
ByteValues == {0, 1, 10, 128, 255}

\* The 16-byte values tried: all bytes 0x00 or all 0xFF, but for the bytes
\* at up to two places.
Uint128Arrays ==
    {[i \in 1..Uint128Size |-> IF i = p THEN a ELSE IF i = q THEN b ELSE fill] :
        p \in 1..Uint128Size, q \in 1..Uint128Size,
        a \in ByteValues, b \in ByteValues, fill \in {0, 255}}

\* The engine's native scalar for a 16-byte big-endian value.
NativeOf(bytes) ==
    [j \in 1..(Uint128Size \div 2) |-> bytes[2 * j - 1] * 256 + bytes[2 * j]]

Uint128Node(form, bytes) ==
    Node("UINT128", Uint128Size,
         [form |-> form,
          v |-> IF form = "bytes" THEN bytes ELSE NativeOf(bytes)])

InitUint128 ==
    /\ \E form \in {"bytes", "native"}, bytes \in Uint128Arrays :
            nodes = <<Uint128Node(form, bytes)>>
    /\ mmdb = 1
    /\ closed = "False"
    /\ self = "live"
    /\ handles = [h \in Handles |->
                    IF h = 1
                    THEN [mem |-> "allocated", eng |-> "open", closes |-> 0,
                          frees |-> 0, ip_version |-> 6]
                    ELSE UnusedHandle]
    /\ res = [Result("init") EXCEPT !.alloc = "attached", !.engine = 1]

SpecUint128 == InitUint128 /\ [][NextDecode]_vars

-----------------------------------------------------------------------------
(* The metadata specification: a Reader just constructed on a database      *)
(* whose metadata section is the list nodes; the only calls are metadata(). *)

\* The value stored under metadata field f.
MetadataValue(f) == Node("UINT32", 4, 100 + f)

\* The metadata section that holds the fields of present, in kwlist order.
MetadataMap(present) ==
    LET fields == SelectSeq([f \in MetadataFields |-> f],
                            LAMBDA f : f \in present)
    IN  <<Node("MAP", Len(fields), 0)>> \o
        [i \in 1..(2 * Len(fields)) |->
            IF i % 2 = 1 THEN Node("UTF8_STRING", 1, fields[(i + 1) \div 2])
            ELSE MetadataValue(fields[i \div 2])]

\* The metadata sections tried: a map of every subset of the nine fields,
\* and sections that are not a map.
MetadataLists ==
    {MetadataMap(present) : present \in SUBSET MetadataFields} \cup
    { <<Node("UINT32", 4, 7)>>,
      <<Node("UTF8_STRING", 1, 1)>>,
      <<Node("ARRAY", 1, 0), Node("UTF8_STRING", 1, 1)>> }

InitMetadata ==
    /\ nodes \in MetadataLists
    /\ mmdb = 1
    /\ closed = "False"
    /\ self = "live"
    /\ handles = [h \in Handles |->
                    IF h = 1
                    THEN [mem |-> "allocated", eng |-> "open", closes |-> 0,
                          frees |-> 0, ip_version |-> 6]
                    ELSE UnusedHandle]
    /\ res = [Result("init") EXCEPT !.alloc = "attached", !.engine = 1]

\* reader.metadata() on that database.
MetadataEntry == Reader_metadata({nodes})

NextMetadata == MetadataEntry

SpecMetadata == InitMetadata /\ [][NextMetadata]_vars

-----------------------------------------------------------------------------
(* Properties of the reader specification (Spec).                           *)

LookupOps == {"get", "get_with_prefix_len", "metadata"}

ReleaseOps == {"close", "__exit__", "dealloc"}

\* The ClosedReader error: the closed-database message, as a ValueError
\* (lookups) or an IOError (metadata).
ClosedReader(r) == r.exc \in {"ValueError", "IOError"} /\ r.msg = ClosedMsg

\* The reader is Open: it holds a handle.
IsOpen == mmdb # NULL

\* The reader is Closed: close() has run and it holds no handle.
IsClosed == closed = "True" /\ mmdb = NULL

\* Some handle of this reader has been released: close() (or __exit__, or
\* the deallocation) has run on the reader while it was Open.
WasClosed == \E h \in Handles : handles[h].closes > 0

\* C1: after close() on a reader, every later get, get_with_prefix_len and
\* metadata call fails with ClosedReader and does not reach the engine.
C1_LookupAfterCloseFails ==
    (res.op \in LookupOps /\ WasClosed)
        => (ClosedReader(res) /\ res.engine = NULL)

\* The part of C1 that holds: a lookup on a reader that holds no handle fails
\* with ClosedReader, whatever the argument, and a lookup that reaches the
\* engine passes it a handle that is open.
LookupOnClosedFails ==
    res.op \in LookupOps =>
        /\ mmdb = NULL => (ClosedReader(res) /\ res.engine = NULL)
        /\ res.engine # NULL => handles[res.engine].eng = "open"

\* C2: the engine handle of a reader is closed and freed exactly once: no
\* handle is ever passed to MMDB_close or free twice, the handle a reader
\* holds is not yet released, the first close(), __exit__ or deallocation
\* releases it, a later close() or __exit__ returns normally and releases
\* nothing, and a deallocated reader holds no handle.
C2_ReleasedExactlyOnce ==
    /\ \A h \in Handles :
          /\ handles[h].closes = handles[h].frees
          /\ handles[h].frees <= 1
          /\ handles[h].frees = 1 <=> handles[h].mem = "freed"
    /\ mmdb # NULL =>
          (handles[mmdb].mem = "allocated" /\ handles[mmdb].eng = "open")
    /\ res.op \in ReleaseOps =>
          /\ mmdb = NULL
          /\ res.engine # NULL => handles[res.engine].frees = 1
    /\ res.op \in {"close", "__exit__"} => res.exc = "none"
    /\ self = "freed" => mmdb = NULL

\* A second close(), on a reader whose handle is already released.
C2_Witness ==
    /\ res.op = "close"
    /\ res.engine = NULL
    /\ closed = "True"
    /\ \E h \in Handles : handles[h].frees = 1

\* C3: the Open to Closed transition is one-way: a reader that was Open and
\* is Closed stays Closed under every operation, Reader_init run again
\* included.
C3_ClosedIsFinal == [][(IsClosed /\ WasClosed) => IsClosed']_vars

\* The reader holds one pointer, so at most one handle; a handle that is
\* open and that the reader no longer points to can never be released.
NoOrphanHandle == \A h \in Handles : handles[h].eng = "open" => mmdb = h

\* C4: __enter__ on a closed reader fails with the reopen ValueError and the
\* reader stays Closed; on an Open reader it returns the reader, still Open;
\* after __exit__, however the block ended, the reader is Closed, the call
\* returned normally and the handle it held is released.
C4_ScopedUse ==
    /\ closed = "True" <=> (mmdb = NULL /\ closed # "NULL")
    /\ res.op = "__enter__" =>
          /\ closed = "True" =>
                /\ res.exc = "ValueError"
                /\ res.msg = "Attempt to reopen a closed MaxMind DB."
                /\ IsClosed
          /\ IsOpen =>
                /\ res.exc = "none"
                /\ res.record = PyObj("Reader", 0, <<>>)
                /\ handles[mmdb].eng = "open"
                /\ closed = "False"
    /\ res.op = "__exit__" =>
          /\ IsClosed
          /\ res.exc = "none"
          /\ res.engine # NULL => handles[res.engine].eng = "closed"
          /\ \A h \in Handles : handles[h].eng = "open" => h # res.engine

\* __exit__ after a block that ended with an error and had closed the reader
\* itself.
C4_Witness ==
    /\ res.op = "__exit__"
    /\ res.msg = "Exception"
    /\ res.engine = NULL
    /\ WasClosed


Max(a, b) == IF a >= b THEN a ELSE b

\* The lookup reached the engine and the engine reported success.
EngineSucceeded == res.engine # NULL /\ res.status = "MMDB_SUCCESS"

\* The prefix length C5 states for the last lookup.
CorrectedPrefixLen ==
    IF res.family = "AF_INET" /\ handles[res.engine].ip_version = 6
    THEN Max(res.netmask - 96, 0)
    ELSE res.netmask

\* C5: a get_with_prefix_len that returns reports max(netmask - 96, 0) for
\* an IPv4 address in an IPv6 database and the raw netmask otherwise; when
\* the engine finds no entry the call returns None with that prefix length,
\* which is not negative, and raises nothing (get returns None).
C5_PrefixLen ==
    /\ (res.op = "get_with_prefix_len" /\ res.exc = "none") =>
          (EngineSucceeded /\ res.prefix_len = CorrectedPrefixLen)
    /\ (res.op \in {"get", "get_with_prefix_len"} /\ EngineSucceeded
            /\ ~res.found_entry) =>
          /\ res.exc = "none"
          /\ res.record = Py_None
          /\ res.op = "get_with_prefix_len" =>
                (res.prefix_len = CorrectedPrefixLen /\ res.prefix_len >= 0)

\* An IPv4 address not found in an IPv6 database below the IPv4 start bit.
C5_Witness ==
    /\ res.op = "get_with_prefix_len"
    /\ res.exc = "none"
    /\ ~res.found_entry
    /\ res.family = "AF_INET"
    /\ handles[res.engine].ip_version = 6
    /\ res.netmask = 95
    /\ res.prefix_len = 0

\* C6: on an Open reader with a resolved address, the engine status "IPv6
\* address in an IPv4 database" raises ValueError (InvalidAddress), every
\* other failure of the lookup or of fetching the entry data list raises
\* InvalidDatabaseError (CorruptDatabase); no record and no prefix length
\* come back and the reader stays Open.
C6_ErrorClass ==
    (res.op \in {"get", "get_with_prefix_len"} /\ res.engine # NULL
        /\ (res.status # "MMDB_SUCCESS"
              \/ res.list_status \notin {"", "MMDB_SUCCESS"})) =>
          /\ res.exc =
                IF res.status = "MMDB_IPV6_LOOKUP_IN_IPV4_DATABASE_ERROR"
                THEN "ValueError"
                ELSE "InvalidDatabaseError"
          /\ res.record = Py_None
          /\ res.prefix_len = -1
          /\ mmdb = res.engine
          /\ handles[mmdb].eng = "open"
          /\ closed = "False"

\* An IPv6 address looked up in an IPv4 database.
C6_Witness ==
    /\ res.op = "get"
    /\ res.family = "AF_INET6"
    /\ res.status = "MMDB_IPV6_LOOKUP_IN_IPV4_DATABASE_ERROR"
    /\ res.exc = "ValueError"

\* The pointers other than NULL given to MMDB_free_entry_data_list.
ListsFreed == SelectSeq(res.freed, LAMBDA ptr : ptr # NULL)

\* C7: a lookup or metadata call that returns (with a value or an
\* exception) has freed the entry data list it got exactly once, by the
\* list's head and not by the advanced cursor; a call that got no list has
\* freed none.
C7_ListFreedOnce ==
    (res.op \in LookupOps /\ res.exc # "SIGSEGV") =>
        ListsFreed = IF res.listHead # NULL THEN <<res.listHead>> ELSE <<>>

\* A decode that failed below the top level, the cursor advanced.
C7_Witness ==
    /\ res.op = "metadata"
    /\ res.exc = "InvalidDatabaseError"
    /\ res.listHead # NULL
    /\ res.cur > res.listHead + 1
    /\ res.freed = <<res.listHead>>


-----------------------------------------------------------------------------
(* Properties of the decoder specification (SpecDecode): res is the result  *)
(* of looking up the entry whose list is nodes.                             *)

\* The lookup decoded nodes (or tried to).
Decoded == res.op = "get_with_prefix_len" /\ res.listHead # NULL

\* The list ended where the decoder expected a node: a key, a map value or
\* an array element.
PrematureEnd == Decoded /\ res.cur = NULL

\* C8: when the list ends before a map's pairs or an array's elements are
\* all read, the decode fails with InvalidDatabaseError (CorruptDatabase)
\* and reads no field of a NULL node.
C8_PrematureEndIsCorrupt ==
    PrematureEnd => (res.exc = "InvalidDatabaseError" /\ ~res.nullRead)

\* The part of C8 that holds: a list that ends where a map value or an array
\* element is expected fails with InvalidDatabaseError; a NULL node is read
\* only where a key is expected.
PrematureEndAtValue ==
    (PrematureEnd /\ ~res.nullRead) => res.exc = "InvalidDatabaseError"

\* C9: when the node in a key position of a map is not a UTF8_STRING, the
\* decode fails with InvalidDatabaseError (CorruptDatabase) and returns no
\* mapping.
C9_KeyMustBeString ==
    (Decoded /\ res.keyCast) =>
        (res.exc = "InvalidDatabaseError" /\ res.record = Py_None)

\* The extent of the value at position i as the sizes declare it: the node
\* and, under a container, its elements, or its pairs of one key node and
\* one value.
RECURSIVE SubtreeSize(_, _)
RECURSIVE PairsSize(_, _, _)
RECURSIVE ElementsSize(_, _, _)
SubtreeSize(list, i) ==
    CASE list[i].type = "MAP" ->
            1 + PairsSize(list, i + 1, list[i].data_size)
      [] list[i].type = "ARRAY" ->
            1 + ElementsSize(list, i + 1, list[i].data_size)
      [] OTHER -> 1

PairsSize(list, i, n) ==
    IF n = 0 THEN 0
    ELSE 1 + SubtreeSize(list, i + 1)
           + PairsSize(list, i + 1 + SubtreeSize(list, i + 1), n - 1)

ElementsSize(list, i, n) ==
    IF n = 0 THEN 0
    ELSE SubtreeSize(list, i)
           + ElementsSize(list, i + SubtreeSize(list, i), n - 1)

\* The positions of the n keys of a map whose first key is at position i.
RECURSIVE KeyPositions(_, _, _)
KeyPositions(list, i, n) ==
    IF n = 0 THEN <<>>
    ELSE <<i>> \o KeyPositions(list, i + 1 + SubtreeSize(list, i + 1), n - 1)

\* The text a key node yields.
KeyText(node) ==
    IF node.type \in {"UTF8_STRING", "BYTES"}
    THEN PyObj("str", node.payload, <<>>)
    ELSE GarbageStr

\* The lookup returned the decoded value of a list whose head is a map.
MapDecoded == Decoded /\ res.exc = "none" /\ nodes[1].type = "MAP"

\* C10 as stated: decoding a map of declared size N (its keys all strings)
\* consumes exactly 2N nodes after the map node and gives at most N entries,
\* fewer only when two keys are equal.
C10_ConsumesTwoN ==
    (MapDecoded /\ ~res.keyCast) =>
        LET N == nodes[1].data_size
            keys == KeyPositions(nodes, 2, N)
        IN  /\ res.cur - 1 = 2 * N
            /\ Len(res.record.items) <= N
            /\ Len(res.record.items) < N =>
                  \E a, b \in 1..N :
                      a # b /\ KeyText(nodes[keys[a]]) = KeyText(nodes[keys[b]])

\* C10 amended: decoding a map of declared size N consumes its N key nodes
\* and the N whole values after them, 2N nodes and every node nested in a
\* value; the mapping has one entry for each distinct key, so at most N, the
\* keys of the mapping differ, and each key has the value of the last pair
\* with that key.
C10_ConsumesPairs ==
    MapDecoded =>
        LET N == nodes[1].data_size
            keys == KeyPositions(nodes, 2, N)
            nested == PairsSize(nodes, 2, N) - 2 * N
            items == res.record.items
        IN  /\ res.cur - 1 = 2 * N + nested
            /\ nested >= 0
            /\ Len(items) <= N
            /\ Len(items) = Cardinality({KeyText(nodes[keys[a]]) : a \in 1..N})
            /\ \A a, b \in 1..Len(items) : a # b => items[a][1] # items[b][1]
            /\ \A a \in 1..Len(items) :
                  \E p \in 1..N :
                      /\ KeyText(nodes[keys[p]]) = items[a][1]
                      /\ \A q \in (p + 1)..N :
                            KeyText(nodes[keys[q]]) # items[a][1]
                      /\ items[a][2] =
                            from_entry_data_list(nodes, keys[p] + 1,
                                                 "GarbageKey").val

\* A map of two pairs with one key and two different values.
C10_Witness ==
    /\ MapDecoded
    /\ nodes[1].data_size = 2
    /\ Len(res.record.items) = 1
    /\ nodes[3] # nodes[5]
    /\ ~res.keyCast

-----------------------------------------------------------------------------
(* Properties of the 128-bit specification (SpecUint128).                   *)

\* The bits of a sequence of numbers below 2^width, most significant first.
RECURSIVE BitsOf(_, _)
BitsOf(seq, width) ==
    IF seq = <<>>
    THEN <<>>
    ELSE [k \in 1..width |-> (Head(seq) \div (2 ^ (width - k))) % 2]
         \o BitsOf(Tail(seq), width)

\* The 16 bytes the node under decode stands for, whatever its form.
BytesOfNode(node) ==
    IF node.payload.form = "bytes"
    THEN node.payload.v
    ELSE LimbBytes(node.payload.v)

\* high * 2^64 + low in binary without leading zeros, high the first 8 bytes
\* and low the last 8: the bits of high followed by all 64 bits of low.
HighLowValue(bytes) ==
    StripZeros(BitsOf(SubSeq(bytes, 1, 8), 8) \o BitsOf(SubSeq(bytes, 9, 16), 8))

\* A Python int in binary without leading zeros.
IntBits(py_obj) == StripZeros(BitsOf(py_obj.items, 4))

Uint128Decoded ==
    /\ Decoded /\ Len(nodes) = 1 /\ nodes[1].type = "UINT128"
    /\ res.exc = "none"

\* C11: a 16-byte big-endian value decodes to high * 2^64 + low, high being
\* its first 8 bytes and low its last 8; the byte-array form and the native
\* 128-bit form of one value decode to the identical integer; fifteen 0x00
\* bytes and 0x01 decode to 1, sixteen 0xFF bytes to 2^128 - 1.
C11_Uint128 ==
    (Decoded /\ Len(nodes) = 1 /\ nodes[1].type = "UINT128") =>
        LET bytes == BytesOfNode(nodes[1])
        IN  /\ res.exc = "none"
            /\ res.record.k = "int"
            /\ IntBits(res.record) = HighLowValue(bytes)
            /\ res.record.items # <<>>
            /\ Len(res.record.items) > 1 => res.record.items[1] # 0
            /\ res.record = from_uint128(Uint128Node("bytes", bytes))
            /\ res.record = from_uint128(Uint128Node("native", bytes))
            /\ bytes = [i \in 1..16 |-> IF i = 16 THEN 1 ELSE 0]
                    => res.record = PyObj("int", 0, <<1>>)
            /\ bytes = [i \in 1..16 |-> 255]
                    => res.record = PyObj("int", 0, [i \in 1..32 |-> 15])

\* C11 witness: a value whose high half is not zero and whose low half
\* starts with a zero byte was decoded from the native form.
C11_Witness ==
    /\ Uint128Decoded
    /\ nodes[1].payload.form = "native"
    /\ LET bytes == BytesOfNode(nodes[1])
       IN  /\ \E i \in 1..8 : bytes[i] # 0
           /\ bytes[9] = 0
           /\ bytes[16] = 1
    /\ res.record.items # <<0>>

-----------------------------------------------------------------------------
(* Properties of the metadata specification (SpecMetadata).                 *)

\* metadata() was called on the open reader and the engine handed over the
\* metadata section.
MetadataRead ==
    res.op = "metadata" /\ res.engine # NULL /\ res.listHead # NULL

\* The fields the metadata section holds.
PresentFields ==
    {nodes[i].payload : i \in {j \in 2..Len(nodes) : j % 2 = 0}}

\* C12: metadata() on an Open reader whose metadata decodes to a Map that
\* lacks some of the nine fields succeeds, and the record holds the map's
\* value in every field present and a defined unset value in every field
\* absent; when the metadata is not a Map it fails with CorruptDatabase.
C12_MetadataMaterialised ==
    MetadataRead =>
        IF nodes[1].type = "MAP"
        THEN /\ res.exc = "none"
             /\ res.record.k = "Metadata"
             /\ \A f \in MetadataFields :
                    IF f \in PresentFields
                    THEN res.record.items[f] = ScalarValue(MetadataValue(f))
                    ELSE res.record.items[f] # GarbageStr
        ELSE res.exc = "InvalidDatabaseError"

\* What the code does keep of C12: a Map with all nine fields gives the
\* record of its values, and a section that is not a Map is refused.
MetadataOfFullMap ==
    MetadataRead =>
        IF nodes[1].type # "MAP"
        THEN res.exc = "InvalidDatabaseError" /\ res.record = Py_None
        ELSE PresentFields = MetadataFields =>
                /\ res.exc = "none"
                /\ res.record =
                      PyObj("Metadata", 0,
                            [f \in MetadataFields |->
                                ScalarValue(MetadataValue(f))])

-----------------------------------------------------------------------------
(* Opening (Spec).                                                          *)

\* Reader_init ran to one of the outcomes opening is specified to have:
\* the database argument was a path and memory was not exhausted.
Opened == res.op = "init" /\ res.exc \notin {"TypeError", "MemoryError"}

ModeSupported(mode) == mode \in {MODE_AUTO, MODE_MMAP_EXT}

\* C13: a reader becomes Open if and only if the mode is Auto or
\* MemoryMapExt, the file is readable and the engine accepts it; another
\* mode fails with UnsupportedMode, an unreadable or missing file with
\* FileNotFound/PermissionDenied, an engine failure with CorruptDatabase;
\* after a failure the session is not Open and no engine handle is
\* allocated or attached to it.
C13_Opening ==
    Opened =>
        LET database == res.args[1]
            mode == res.args[2]
            readable == access(database) = ""
            accepted == MMDB_open(database) # 0
        IN  /\ res.exc = "none" <=> (ModeSupported(mode) /\ readable /\ accepted)
            /\ ~ModeSupported(mode) => res.exc = "ValueError"
            /\ (ModeSupported(mode) /\ ~readable) =>
                    res.exc \in {"FileNotFoundError", "PermissionError"}
            /\ (ModeSupported(mode) /\ readable /\ ~accepted) =>
                    res.exc = "InvalidDatabaseError"
            /\ res.exc = "none" =>
                    /\ IsOpen /\ closed = "False"
                    /\ handles[mmdb].eng = "open"
                    /\ handles[mmdb].ip_version = MMDB_open(database)
            /\ res.exc # "none" =>
                    /\ ~IsOpen
                    /\ \A h \in Handles : handles[h].eng # "open"

\* What the code does keep of C13: the outcome of every call is the one
\* specified, and a failed call allocates, attaches and releases nothing.
OpeningOutcome ==
    Opened =>
        LET database == res.args[1]
            mode == res.args[2]
            readable == access(database) = ""
            accepted == MMDB_open(database) # 0
        IN  /\ res.exc = "none" <=> (ModeSupported(mode) /\ readable /\ accepted)
            /\ ~ModeSupported(mode) => res.exc = "ValueError"
            /\ (ModeSupported(mode) /\ ~readable) =>
                    res.exc \in {"FileNotFoundError", "PermissionError"}
            /\ (ModeSupported(mode) /\ readable /\ ~accepted) =>
                    res.exc = "InvalidDatabaseError"
            /\ res.exc = "none" =>
                    /\ IsOpen /\ closed = "False"
                    /\ handles[mmdb].eng = "open"

FailedOpeningChangesNothing ==
    [][(res'.op = "init" /\ res'.exc # "none")
            => UNCHANGED <<mmdb, closed, handles>>]_vars

-----------------------------------------------------------------------------
(* Well-formed input (SpecDecode): nested values and their pre-order lists. *)

\* The scalars and the map keys the nodes of Alphabet stand for.
ScalarValues ==
    {PyObj("str", 1, <<>>), PyObj("str", 2, <<>>), PyObj("bytearray", 1, <<>>)}

KeyValues == {PyObj("str", 1, <<>>), PyObj("str", 2, <<>>)}

\* The values of exactly n nodes: scalars, the empty map, arrays of one or
\* two elements, maps of one or two entries with different keys.
RECURSIVE ValuesOfSize(_)
ValuesOfSize(n) ==
    IF n <= 0 THEN {}
    ELSE IF n = 1 THEN ScalarValues \cup {PyDict_New}
    ELSE {PyObj("list", 0, <<a>>) : a \in ValuesOfSize(n - 1)}
         \cup UNION {{PyObj("list", 0, <<a, b>>) :
                        a \in ValuesOfSize(k), b \in ValuesOfSize(n - 1 - k)} :
                     k \in 1..(n - 2)}
         \cup {PyObj("dict", 0, <<(<<key, a>>)>>) :
                    key \in KeyValues, a \in ValuesOfSize(n - 2)}
         \cup UNION {{PyObj("dict", 0, <<(<<ks[1], a>>), (<<ks[2], b>>)>>) :
                        ks \in {p \in KeyValues \X KeyValues : p[1] # p[2]},
                        a \in ValuesOfSize(k), b \in ValuesOfSize(n - 3 - k)} :
                     k \in 1..(n - 4)}

WellFormedValues == UNION {ValuesOfSize(n) : n \in 1..MaxLen}

\* The pre-order node list of a value: the node of the value itself, then
\* for a map each key's node and the list of its value, for an array the
\* list of each element.
RECURSIVE Flatten(_)
RECURSIVE FlattenAll(_, _)
Flatten(v) ==
    CASE v.k = "str"       -> <<Node("UTF8_STRING", 1, v.n)>>
      [] v.k = "bytearray" -> <<Node("BYTES", 1, v.n)>>
      [] v.k = "list"      -> <<Node("ARRAY", Len(v.items), 0)>>
                              \o FlattenAll(v.items, FALSE)
      [] v.k = "dict"      -> <<Node("MAP", Len(v.items), 0)>>
                              \o FlattenAll(v.items, TRUE)

FlattenAll(items, pairs) ==
    IF items = <<>>
    THEN <<>>
    ELSE (IF pairs
          THEN Flatten(Head(items)[1]) \o Flatten(Head(items)[2])
          ELSE Flatten(Head(items)))
         \o FlattenAll(Tail(items), pairs)

WellFormedLists == {Flatten(v) : v \in WellFormedValues}

\* No two well-formed values have the same node list: "the value whose
\* list is nodes" names one value.
FlattenIsInjective ==
    Cardinality(WellFormedLists) = Cardinality(WellFormedValues)

\* C14: decoding the pre-order node list of a nested value built from maps
\* with unique string keys, arrays and scalars returns exactly that value
\* (same nesting, element order and key-to-value association), the shared
\* cursor ending on the last node of the value's own subtree.
C14_RoundTrip ==
    (Decoded /\ nodes \in WellFormedLists) =>
        /\ FlattenIsInjective
        /\ res.exc = "none"
        /\ res.record \in WellFormedValues
        /\ Flatten(res.record) = nodes
        /\ res.cur = Len(nodes)
        /\ ~res.nullRead /\ ~res.keyCast

\* C14 witness: an array whose first element is a map and whose second
\* element is the node after that map's subtree.
C14_Witness ==
    /\ Decoded /\ res.exc = "none"
    /\ nodes = Flatten(PyObj("list", 0,
                 << PyObj("dict", 0,
                          <<(<<PyObj("str", 1, <<>>), PyObj("str", 2, <<>>)>>)>>),
                    PyObj("bytearray", 1, <<>>) >>))
    /\ Len(nodes) = 5
    /\ res.record.items[2] = PyObj("bytearray", 1, <<>>)
    /\ res.record.items[1].items[1][2] = PyObj("str", 2, <<>>)

====
